---- MODULE Spec2Model ----
(***************************************************************************)
(* Model of the Cloud Spanner string indexer                               *)
(* (sentry/sentry_metrics/indexer/cloudspanner/cloudspanner.py):           *)
(* IdCodec, RawCloudSpannerIndexer.bulk_record / record / resolve /        *)
(* reverse_resolve, run by several consumer processes against one table.   *)
(***************************************************************************)
EXTENDS Integers, Sequences, FiniteSets, TLC

\* ------------------------------------------------------------------ bounds

\* Width of the codec in the model (64 in the code).
CodecWidth == 5
\* Calls started over the whole run.
MaxCalls == 2
\* Backend failures injected over the whole run.
MaxFaults == 1
\* Largest write quota the namespace starts with.
MaxQuota == 3

Pow2(n) == 2 ^ n

\* ids the generator hands out: the lower half of the unsigned range
\* ("63 bit IDs" in a 64 bit field).
MaxGeneratedId == Pow2(CodecWidth - 1) - 1

Procs == {"p1", "p2"}

\* ------------------------------------------------------------------ IdCodec

RECURSIVE reverse_bits(_, _)
reverse_bits(number, bit_size) ==
    IF bit_size = 0
    THEN 0
    ELSE (number % 2) * Pow2(bit_size - 1) + reverse_bits(number \div 2, bit_size - 1)

encode_short(value) == reverse_bits(value, CodecWidth - 1) - Pow2(CodecWidth - 1)

\* The reversal without the offset.
encode_unsigned(value) == reverse_bits(value, CodecWidth)

encode(value) == reverse_bits(value, CodecWidth) - Pow2(CodecWidth - 1)

decode(value) == reverse_bits(value + Pow2(CodecWidth - 1), CodecWidth)

\* ------------------------------------------------------------------ texts

\* A text is a sequence of tokens: a run of non-digit characters, or the
\* decimal rendering of an integer.
Ch(c) == [t |-> "ch", c |-> c, n |-> 0]
Num(n) == [t |-> "num", c |-> "", n |-> n]

\* The strings the consumers intern, by name, and their characters.
Strings == {"a", "b", "[1,2]", "c,d"}

Text(s) ==
    CASE s = "a" -> <<Ch("a")>>
      [] s = "b" -> <<Ch("b")>>
      [] s = "[1,2]" -> <<Ch("["), Num(1), Ch(","), Num(2), Ch("]")>>
      [] s = "c,d" -> <<Ch("c"), Ch(","), Ch("d")>>

Orgs == {1, 2}

Key(o, s) == [org |-> o, str |-> s]
Keys == {Key(o, s) : o \in Orgs, s \in Strings}

_UNIQUE_INDEX_VIOLATION_STRING == "Unique index violation"

\* The backend's message for a unique index violation, as documented.
UniqueViolationMessage(row) ==
    <<Ch(_UNIQUE_INDEX_VIOLATION_STRING), Ch(" on index at index key "), Ch("["),
      Num(row.organization_id), Ch(",")>>
    \o Text(row.string)
    \o <<Ch(","), Num(row.id), Ch("]"), Ch(". It conflicts with row "), Ch("["),
         Num(row.id), Ch("]"), Ch(" in table")>>

\* The same violation reported without the index key detail.
UniqueViolationPlainMessage == <<Ch(_UNIQUE_INDEX_VIOLATION_STRING)>>

\* The backend's message for a primary key that already exists.
RowExistsMessage(id) ==
    <<Ch("Row "), Ch("["), Num(id), Ch("]"), Ch(" in table already exists")>>

startswith(message, prefix) == Len(message) > 0 /\ message[1] = Ch(prefix)

\* re.search(r"\[([^]]+)]", message): the group of the leftmost match, <<>> if
\* there is none.
ClosingAfter(message, i) ==
    {j \in (i + 1)..Len(message) : message[j] = Ch("]")}

Matches(message, i) ==
    /\ message[i] = Ch("[")
    /\ ClosingAfter(message, i) # {}
    /\ \A j \in ClosingAfter(message, i) : j > i + 1

FirstClosing(message, i) ==
    CHOOSE j \in ClosingAfter(message, i) : \A k \in ClosingAfter(message, i) : j <= k

regex_search(message) ==
    LET starts == {i \in 1..Len(message) : Matches(message, i)}
    IN  IF starts = {}
        THEN <<>>
        ELSE LET i == CHOOSE x \in starts : \A y \in starts : x <= y
             IN  SubSeq(message, i + 1, FirstClosing(message, i) - 1)

\* group.split(","): the parts between the commas.
RECURSIVE split(_)
split(group) ==
    LET commas == {i \in 1..Len(group) : group[i] = Ch(",")}
    IN  IF commas = {}
        THEN <<group>>
        ELSE LET i == CHOOSE x \in commas : \A y \in commas : x <= y
             IN  <<SubSeq(group, 1, i - 1)>> \o split(SubSeq(group, i + 1, Len(group)))

\* int(part) succeeds on the rendering of one integer.
IsInt(part) == Len(part) = 1 /\ part[1].t = "num"


\* ------------------------------------------------------------------ KeyResults

DB_READ == "db_read"
FIRST_SEEN == "first_seen"
RATE_LIMITED == "rate_limited"

\* The placeholder id of a rate limited key.
NoneId == -1

KeyResult(id, fetch_type) == [id |-> id, fetch_type |-> fetch_type]

EmptyKeyResults == [k \in {} |-> KeyResult(NoneId, RATE_LIMITED)]

\* KeyResults.add_key_result: a key already present keeps its record.
add_key_result(results, key, id, fetch_type) ==
    [k \in DOMAIN results \cup {key} |->
        IF k \in DOMAIN results THEN results[k] ELSE KeyResult(id, fetch_type)]

\* A merge that keeps only the other instance's records.
merge_taking_other(self, other) == other

\* KeyResults.merge: the union; on a shared key this instance's record stays.
merge(self, other) ==
    [k \in DOMAIN self \cup DOMAIN other |->
        IF k \in DOMAIN self THEN self[k] ELSE other[k]]

\* Every requested key taken as unmapped.
all_keys_unmapped(results, keys) == keys

get_unmapped_keys(results, keys) == keys \ DOMAIN results

\* ------------------------------------------------------------------ the table

\* A stored row: the columns the indexer reads and writes (the dates and
\* retention_days are written once and never read by this code).
Row(key, new_id) ==
    [id |-> encode(new_id), decoded_id |-> new_id,
     string |-> key.str, organization_id |-> key.org]

RowKey(row) == Key(row.organization_id, row.string)

\* snapshot.read by the unique (organization_id, string) index.
ReadByIndex(tbl, keys) == {r \in tbl : RowKey(r) \in keys}

\* snapshot.read by primary key.
ReadById(tbl, id) == {r \in tbl : r.id = id}

\* Rows of `tbl` that make an insert of `rows` fail: same primary key, or same
\* (organization_id, string).
Collisions(tbl, rows) ==
    {r \in tbl : \E n \in rows : n.id = r.id \/ RowKey(n) = RowKey(r)}

\* transaction.insert_or_update: an existing row is replaced.
TxnInsertOrUpdate(tbl, rows) ==
    [ok |-> TRUE, table |-> (tbl \ Collisions(tbl, rows)) \cup rows]

\* transaction.insert inside run_in_transaction: all rows, or none and
\* AlreadyExists when one collides.
TxnInsert(tbl, rows) ==
    [ok |-> Collisions(tbl, rows) = {},
     table |-> IF Collisions(tbl, rows) = {} THEN tbl \cup rows ELSE tbl]

\* ------------------------------------------------------------------ exceptions

Exc(cls, code, message) == [cls |-> cls, code |-> code, message |-> message]

\* What the backend raises for an insert of `row` that collides with `tbl`.
ConflictExceptions(tbl, row) ==
    {Exc("AlreadyExists", "CONFLICT", UniqueViolationMessage(r)) :
        r \in ReadByIndex(tbl, {RowKey(row)})}
    \cup {Exc("AlreadyExists", "CONFLICT", UniqueViolationPlainMessage) :
        r \in ReadByIndex(tbl, {RowKey(row)})}
    \cup {Exc("AlreadyExists", "CONFLICT", RowExistsMessage(r.id)) :
        r \in {x \in ReadById(tbl, row.id) : RowKey(x) # RowKey(row)}}

\* Failures of the backend that do not come from the table's contents.
FaultExceptions(row) ==
    {Exc("ServiceUnavailable", "SERVICE_UNAVAILABLE", <<Ch("unavailable")>>),
     Exc("AlreadyExists", "CONFLICT", RowExistsMessage(row.id)),
     Exc("AlreadyExists", "UNKNOWN", UniqueViolationPlainMessage)}


\* ------------------------------------------------------------------ handlers

\* Every exception of the batch transaction leading to the individual inserts.
individual_BatchOutcome(e) == "individual"

\* _insert_batched_records' except clause and _insert_db_records' try: what
\* becomes of an exception of the batch transaction.
BatchOutcome(e) ==
    IF e.cls = "AlreadyExists"
    THEN IF e.code = "CONFLICT" THEN "individual" ELSE "swallowed"
    ELSE "raise"

\* The except clause of _insert_individual_records for the insert of `row`.
IndividualOutcome(e, row, tbl) ==
    IF e.cls # "AlreadyExists"
    THEN [kind |-> "raise", exc |-> e.cls, id |-> NoneId]
    ELSE IF e.code = "CONFLICT" /\ startswith(e.message, _UNIQUE_INDEX_VIOLATION_STRING)
    THEN LET group == regex_search(e.message)
         IN  IF group # <<>>
             THEN LET parts == split(group)
                  IN  IF Len(parts) # 3 \/ ~IsInt(parts[3])
                      THEN [kind |-> "raise", exc |-> "ValueError", id |-> NoneId]
                      ELSE [kind |-> "id", exc |-> "none", id |-> decode(parts[3][1].n)]
             ELSE LET result_list == ReadByIndex(tbl, {RowKey(row)})
                  IN  IF result_list = {}
                      THEN [kind |-> "raise", exc |-> "IndexError", id |-> NoneId]
                      ELSE [kind |-> "id", exc |-> "none",
                            id |-> decode((CHOOSE r \in result_list : TRUE).id)]
    ELSE [kind |-> "swallowed", exc |-> "none", id |-> NoneId]

\* A failure of the backend that is no uniqueness conflict the code recognises.
Unrecognised(e, individual) ==
    ~(/\ e.cls = "AlreadyExists"
      /\ e.code = "CONFLICT"
      /\ (individual => startswith(e.message, _UNIQUE_INDEX_VIOLATION_STRING)))

\* ------------------------------------------------------------------ rate limiter

\* The writes left in a namespace whose counter is `remaining` (concurrent
\* calls that were granted the same writes can take it below zero).
Left(remaining) == IF remaining < 0 THEN 0 ELSE remaining

\* check_write_limits: the subsets of `keys` the limiter may accept when
\* `remaining` writes are left in the namespace.
AcceptedSets(keys, remaining) ==
    {acc \in SUBSET keys :
        Cardinality(acc) = IF Cardinality(keys) <= Left(remaining)
                           THEN Cardinality(keys) ELSE Left(remaining)}

\* RateLimitState.__exit__: the quota is used only when the block ended
\* without an exception.
use_quotas(remaining, granted, exc_type) ==
    IF exc_type = "none" THEN remaining - granted ELSE remaining

\* ------------------------------------------------------------------ state

VARIABLES
    table,          \* the rows of the indexer table
    quota,          \* writes left in the limiter's namespace
    next_id,        \* the next id get_id hands out
    faults,         \* backend failures injected so far
    calls,          \* calls started so far
    given,          \* <<key, id>> returned so far as FIRST_SEEN or DB_READ
    pc,             \* where each process is in its call
    op,             \* the operation each process runs
    org_strings,    \* the keys each call asks for
    db_read_key_results,
    rate_limited_key_results,
    new_records,    \* rows_to_insert, in order
    idx,            \* position of the loop of _insert_individual_records
    db_write_key_results,
    result,         \* what the last call returned
    exc,            \* the exception the last call raised
    failure,        \* the unrecognised backend failure the call met
    committed,      \* quota the call used
    inserted,       \* rows the call inserted
    seen,           \* `given` when the call started
    limit_seen,     \* <<keys to write, quota left>> at check_write_limits
    empty_at_start, \* the table was empty when the call read it
    answer,         \* what the last resolve or reverse_resolve returned
    codec,          \* the codec under test: value, encoded, decoded
    consumer,       \* the batch consumer: its configuration, batch and outcome
    ingest,         \* the registry of ingest configurations and the quota of
                    \* each limiter namespace
    persisted       \* the rows the failed call now redelivered had inserted

vars ==
    <<table, quota, next_id, faults, calls, given, pc, op, org_strings,
      db_read_key_results, rate_limited_key_results, new_records, idx,
      db_write_key_results, result, exc, failure, committed, inserted, seen,
      limit_seen, empty_at_start, answer, codec, consumer, ingest, persisted>>

\* The batches the consumers send.
Batch_ab_a == {Key(1, "a"), Key(1, "b"), Key(2, "a")}
\* The calls the consumers make: <<operation, org_strings>>.
Requests ==
    {<<"bulk_record", Batch_ab_a>>,
     <<"record", {Key(1, "a")}>>,
     <<"bulk_record", {Key(1, "[1,2]")}>>,
     <<"bulk_record", {Key(2, "c,d"), Key(2, "a")}>>}

\* The quota the namespace may start with: none, one write, ample.
StartQuotas == {0, 1, MaxQuota}

NoAnswer == [op |-> "none", key |-> Key(0, ""), id |-> NoneId, value |-> NoneId,
             string |-> ""]

CodecIdle == [phase |-> "idle", value |-> 0, encoded |-> 0, decoded |-> 0]

\* The consumer before a batch arrives.
ConsumerIdle ==
    [phase |-> "idle", use_case_id |-> "", db_backend |-> "", batch |-> {},
     exc |-> "none", bulk_record_calls |-> 0, org_strings |-> {},
     reconstructed |-> FALSE]

RELEASE_HEALTH_PG_NAMESPACE == "releasehealth"
PERFORMANCE_PG_NAMESPACE == "performance"
\* The distributed backend of release health sharing the relational namespace.
shared_RELEASE_HEALTH_NAMESPACE == "releasehealth"
RELEASE_HEALTH_CS_NAMESPACE == "releasehealth.cs"
PERFORMANCE_CS_NAMESPACE == "performance.cs"

Namespaces ==
    {RELEASE_HEALTH_PG_NAMESPACE, PERFORMANCE_PG_NAMESPACE,
     RELEASE_HEALTH_CS_NAMESPACE, PERFORMANCE_CS_NAMESPACE}

NoConfig == [use_case_id |-> "", db_backend |-> "", writes_limiter_namespace |-> ""]

\* _METRICS_INGEST_CONFIG_BY_USE_CASE before the first get_ingest_config.
EmptyRegistry == [k \in {} |-> NoConfig]

\* The module before the first get_ingest_config, every namespace with the
\* same quota.
IngestIdle(q) ==
    [registry |-> EmptyRegistry, asked |-> <<"", "">>, returned |-> NoConfig,
     exc |-> "none", quotas |-> [ns \in Namespaces |-> q]]

IndexerInit ==
    /\ table = {}
    /\ quota \in StartQuotas
    /\ next_id = 1
    /\ calls = 0
    /\ given = {}
    /\ pc = [p \in Procs |-> "idle"]
    /\ op = [p \in Procs |-> "bulk_record"]
    /\ org_strings = [p \in Procs |-> {}]
    /\ db_read_key_results = [p \in Procs |-> EmptyKeyResults]
    /\ rate_limited_key_results = [p \in Procs |-> EmptyKeyResults]
    /\ new_records = [p \in Procs |-> <<>>]
    /\ idx = [p \in Procs |-> 0]
    /\ db_write_key_results = [p \in Procs |-> EmptyKeyResults]
    /\ result = [p \in Procs |-> EmptyKeyResults]
    /\ exc = [p \in Procs |-> "none"]
    /\ failure = [p \in Procs |-> "none"]
    /\ committed = [p \in Procs |-> 0]
    /\ inserted = [p \in Procs |-> {}]
    /\ seen = [p \in Procs |-> {}]
    /\ limit_seen = [p \in Procs |-> <<0, 0>>]
    /\ empty_at_start = [p \in Procs |-> FALSE]
    /\ answer = NoAnswer
    /\ persisted = [p \in Procs |-> {}]

MainInit ==
    /\ IndexerInit
    /\ consumer = ConsumerIdle
    /\ ingest = IngestIdle(MaxQuota)

Init == MainInit /\ faults = 0 /\ codec = CodecIdle


\* ------------------------------------------------------------------ bulk_record

InCall == {"limit", "batch", "individual"}

\* The call of process p goes on at `at`.
Work(p, at, reads, limited, records, i, writes) ==
    /\ pc' = [pc EXCEPT ![p] = at]
    /\ db_read_key_results' = [db_read_key_results EXCEPT ![p] = reads]
    /\ rate_limited_key_results' = [rate_limited_key_results EXCEPT ![p] = limited]
    /\ new_records' = [new_records EXCEPT ![p] = records]
    /\ idx' = [idx EXCEPT ![p] = i]
    /\ db_write_key_results' = [db_write_key_results EXCEPT ![p] = writes]
    /\ result' = [result EXCEPT ![p] = EmptyKeyResults]
    /\ exc' = [exc EXCEPT ![p] = "none"]
    /\ UNCHANGED given

\* The call of process p leaves bulk_record with exception class e.
Raise(p, e) ==
    /\ pc' = [pc EXCEPT ![p] = "raised"]
    /\ db_read_key_results' = [db_read_key_results EXCEPT ![p] = EmptyKeyResults]
    /\ rate_limited_key_results' = [rate_limited_key_results EXCEPT ![p] = EmptyKeyResults]
    /\ new_records' = [new_records EXCEPT ![p] = <<>>]
    /\ idx' = [idx EXCEPT ![p] = 0]
    /\ db_write_key_results' = [db_write_key_results EXCEPT ![p] = EmptyKeyResults]
    /\ result' = [result EXCEPT ![p] = EmptyKeyResults]
    /\ exc' = [exc EXCEPT ![p] = e]
    /\ UNCHANGED given

Resolved(res) ==
    {<<k, res[k].id>> : k \in {x \in DOMAIN res : res[x].fetch_type # RATE_LIMITED}}

\* bulk_record returns `res` (record then takes result[org_id][string], a
\* KeyError when the key is not there).
Return(p, o, keys, res) ==
    IF o = "record" /\ ~(keys \subseteq DOMAIN res)
    THEN Raise(p, "KeyError")
    ELSE /\ pc' = [pc EXCEPT ![p] = "returned"]
         /\ db_read_key_results' = [db_read_key_results EXCEPT ![p] = EmptyKeyResults]
         /\ rate_limited_key_results' =
                [rate_limited_key_results EXCEPT ![p] = EmptyKeyResults]
         /\ new_records' = [new_records EXCEPT ![p] = <<>>]
         /\ idx' = [idx EXCEPT ![p] = 0]
         /\ db_write_key_results' = [db_write_key_results EXCEPT ![p] = EmptyKeyResults]
         /\ result' = [result EXCEPT ![p] = res]
         /\ exc' = [exc EXCEPT ![p] = "none"]
         /\ given' = given \cup Resolved(res)

\* _get_db_records with the stored ids taken as they are.
raw_id_DbReadResults(tbl, keys) ==
    [k \in {RowKey(r) : r \in ReadByIndex(tbl, keys)} |->
        KeyResult((CHOOSE r \in ReadByIndex(tbl, {k}) : TRUE).id, DB_READ)]

\* _get_db_records: the rows found, decoded.
DbReadResults(tbl, keys) ==
    [k \in {RowKey(r) : r \in ReadByIndex(tbl, keys)} |->
        KeyResult(decode((CHOOSE r \in ReadByIndex(tbl, {k}) : TRUE).id), DB_READ)]

\* bulk_record up to the check of db_write_keys.size: the point read.
StartCall(p, o, keys) ==
    /\ op' = [op EXCEPT ![p] = o]
    /\ org_strings' = [org_strings EXCEPT ![p] = keys]
    /\ failure' = [failure EXCEPT ![p] = "none"]
    /\ committed' = [committed EXCEPT ![p] = 0]
    /\ inserted' = [inserted EXCEPT ![p] = {}]
    /\ seen' = [seen EXCEPT ![p] = given]
    /\ limit_seen' = [limit_seen EXCEPT ![p] = <<0, 0>>]
    /\ empty_at_start' = [empty_at_start EXCEPT ![p] = (table = {})]
    /\ LET reads == DbReadResults(table, keys)
       IN  IF get_unmapped_keys(reads, keys) = {}
           THEN Return(p, o, keys, reads)
           ELSE Work(p, "limit", reads, EmptyKeyResults, <<>>, 0, EmptyKeyResults)
    /\ UNCHANGED <<table, quota, next_id, faults, answer, codec, consumer, ingest>>

\* A consumer calls bulk_record or record.
GetDbRecords(p, o, keys) ==
    /\ pc[p] \notin InCall
    /\ calls < MaxCalls
    /\ calls' = calls + 1
    /\ persisted' = [persisted EXCEPT ![p] = {}]
    /\ StartCall(p, o, keys)

\* The batch whose call raised is delivered again: the same call once more
\* (one redelivery may follow the last call of the run).
Redeliver(p) ==
    /\ pc[p] = "raised"
    /\ calls <= MaxCalls
    /\ calls' = calls + 1
    /\ persisted' = [persisted EXCEPT ![p] = inserted[p]]
    /\ StartCall(p, op[p], org_strings[p])

\* The orders in which as_tuples() hands out the keys: it iterates a mapping of
\* sets, so the order is not fixed; the model takes one order and its reverse.
Perms(keys) ==
    {f \in [1..Cardinality(keys) -> keys] : \A i, j \in DOMAIN f : f[i] = f[j] => i = j}

Orders(keys) ==
    LET f == CHOOSE g \in Perms(keys) : TRUE
    IN  {f, [i \in DOMAIN f |-> f[Cardinality(keys) + 1 - i]]}

\* The keys bulk_record passes to _create_db_records.
all_write_keys(accepted, db_write_keys) == db_write_keys

filtered_db_write_keys(accepted, db_write_keys) == accepted

\* _create_db_records: one generated id per key, encoded.
_create_db_records(order, first_id) ==
    [i \in DOMAIN order |-> Row(order[i], first_id + i - 1)]

\* The dropped strings of the limiter's state as key results.
RateLimitedResults(dropped) == [k \in dropped |-> KeyResult(NoneId, RATE_LIMITED)]

\* bulk_record from check_write_limits to _create_db_records.
CheckWriteLimits(p) ==
    /\ pc[p] = "limit"
    /\ LET db_write_keys == get_unmapped_keys(db_read_key_results[p], org_strings[p])
       IN  \E accepted \in AcceptedSets(db_write_keys, quota) :
           LET limited == RateLimitedResults(db_write_keys \ accepted)
               to_create == filtered_db_write_keys(accepted, db_write_keys)
           IN  /\ limit_seen' =
                      [limit_seen EXCEPT ![p] = <<Cardinality(db_write_keys), Left(quota)>>]
               /\ IF accepted = {}
                  THEN /\ Return(p, op[p], org_strings[p],
                                 merge(db_read_key_results[p], limited))
                       /\ quota' = use_quotas(quota, 0, "none")
                       /\ UNCHANGED next_id
                  ELSE /\ next_id + Cardinality(to_create) - 1 <= MaxGeneratedId
                       /\ \E order \in Orders(to_create) :
                              Work(p, "batch", db_read_key_results[p], limited,
                                   _create_db_records(order, next_id), 0,
                                   EmptyKeyResults)
                       /\ next_id' = next_id + Cardinality(to_create)
                       /\ UNCHANGED quota
    /\ UNCHANGED <<table, faults, calls, op, org_strings, failure, committed,
                   inserted, seen, empty_at_start, answer, codec, consumer, ingest, persisted>>

Range(f) == {f[i] : i \in DOMAIN f}

\* The block guarded by check_write_limits ends normally: the quota is used
\* and bulk_record returns the merged results.
LeaveBlock(p, writes) ==
    /\ quota' = use_quotas(quota, Len(new_records[p]), "none")
    /\ committed' = [committed EXCEPT ![p] = Len(new_records[p])]
    /\ Return(p, op[p], org_strings[p],
              merge(merge(db_read_key_results[p], writes), rate_limited_key_results[p]))

\* An exception leaves the block: nothing is used.
committing_FailBlock(p, e) ==
    /\ quota' = quota - Len(new_records[p])
    /\ committed' = [committed EXCEPT ![p] = Len(new_records[p])]
    /\ Raise(p, e)

FailBlock(p, e) ==
    /\ quota' = use_quotas(quota, Len(new_records[p]), e)
    /\ UNCHANGED committed
    /\ Raise(p, e)

\* The key results _insert_batched_records adds after a successful batch.
db_read_BatchKeyResults(records) ==
    [k \in {RowKey(records[i]) : i \in DOMAIN records} |->
        KeyResult((CHOOSE r \in Range(records) : RowKey(r) = k).decoded_id, DB_READ)]

BatchKeyResults(records) ==
    [k \in {RowKey(records[i]) : i \in DOMAIN records} |->
        KeyResult((CHOOSE r \in Range(records) : RowKey(r) = k).decoded_id, FIRST_SEEN)]

\* _insert_batched_records: the transaction commits.
InsertBatchedOk(p) ==
    /\ pc[p] = "batch"
    /\ TxnInsert(table, Range(new_records[p])).ok
    /\ table' = TxnInsert(table, Range(new_records[p])).table
    /\ inserted' = [inserted EXCEPT ![p] = Range(new_records[p])]
    /\ LeaveBlock(p, BatchKeyResults(new_records[p]))
    /\ UNCHANGED <<next_id, faults, calls, op, org_strings, failure, seen,
                   limit_seen, empty_at_start, answer, codec, consumer, ingest, persisted>>

\* What the backend may raise for the insert of `rows`.
Raisable(rows, first) ==
    [real |-> IF TxnInsert(table, rows).ok
              THEN {}
              ELSE UNION {ConflictExceptions(table, r) : r \in rows},
     fault |-> IF faults < MaxFaults THEN FaultExceptions(first) ELSE {}]

\* _insert_batched_records: the transaction raises.
InsertBatchedRaises(p) ==
    /\ pc[p] = "batch"
    /\ LET may == Raisable(Range(new_records[p]), new_records[p][1])
       IN  \E e \in may.real \cup may.fault :
           /\ faults' = IF e \in may.real THEN faults ELSE faults + 1
           /\ failure' = [failure EXCEPT ![p] =
                              IF Unrecognised(e, FALSE) THEN e.cls ELSE @]
           /\ CASE BatchOutcome(e) = "individual" ->
                     /\ Work(p, "individual", db_read_key_results[p],
                             rate_limited_key_results[p], new_records[p], 1,
                             EmptyKeyResults)
                     /\ UNCHANGED <<quota, committed>>
                [] BatchOutcome(e) = "swallowed" -> LeaveBlock(p, EmptyKeyResults)
                [] BatchOutcome(e) = "raise" -> FailBlock(p, e.cls)
    /\ UNCHANGED <<table, next_id, calls, op, org_strings, inserted, seen,
                   limit_seen, empty_at_start, answer, codec, consumer, ingest, persisted>>

\* A loop that tries the same row again.
retrying_Advance(p, writes) ==
    /\ Work(p, "individual", db_read_key_results[p], rate_limited_key_results[p],
            new_records[p], idx[p], writes)
    /\ UNCHANGED <<quota, committed>>

\* The loop of _insert_individual_records moves on, or ends.
Advance(p, writes) ==
    IF idx[p] = Len(new_records[p])
    THEN LeaveBlock(p, writes)
    ELSE /\ Work(p, "individual", db_read_key_results[p], rate_limited_key_results[p],
                 new_records[p], idx[p] + 1, writes)
         /\ UNCHANGED <<quota, committed>>

\* _insert_individual_records: the transaction of one row commits.
InsertIndividualOk(p) ==
    /\ pc[p] = "individual"
    /\ LET row == new_records[p][idx[p]]
       IN  /\ TxnInsert(table, {row}).ok
           /\ table' = TxnInsert(table, {row}).table
           /\ inserted' = [inserted EXCEPT ![p] = @ \cup {row}]
           /\ Advance(p, add_key_result(db_write_key_results[p], RowKey(row),
                                        row.decoded_id, FIRST_SEEN))
    /\ UNCHANGED <<next_id, faults, calls, op, org_strings, failure, seen,
                   limit_seen, empty_at_start, answer, codec, consumer, ingest, persisted>>

\* _insert_individual_records: the transaction of one row raises.
InsertIndividualRaises(p) ==
    /\ pc[p] = "individual"
    /\ LET row == new_records[p][idx[p]]
           may == Raisable({row}, row)
       IN  \E e \in may.real \cup may.fault :
           LET out == IndividualOutcome(e, row, table)
           IN  /\ faults' = IF e \in may.real THEN faults ELSE faults + 1
               /\ failure' = [failure EXCEPT ![p] =
                                  IF Unrecognised(e, TRUE) THEN e.cls ELSE @]
               /\ CASE out.kind = "raise" -> FailBlock(p, out.exc)
                    [] out.kind = "id" ->
                         Advance(p, add_key_result(db_write_key_results[p],
                                                   RowKey(row), out.id, FIRST_SEEN))
                    [] out.kind = "swallowed" -> Advance(p, db_write_key_results[p])
    /\ UNCHANGED <<table, next_id, calls, op, org_strings, inserted, seen,
                   limit_seen, empty_at_start, answer, codec, consumer, ingest, persisted>>

\* ------------------------------------------------------------------ point reads

NoString == "<None>"

\* resolve: the decoded id of the row of (org_id, string), or None.
resolve(tbl, key) ==
    LET results_list == ReadByIndex(tbl, {key})
    IN  IF results_list = {}
        THEN NoneId
        ELSE decode((CHOOSE r \in results_list : TRUE).id)

\* reverse_resolve: the string of the row whose primary key is `id`, or None.
reverse_resolve(tbl, id) ==
    LET results_list == ReadById(tbl, id)
    IN  IF results_list = {}
        THEN NoString
        ELSE (CHOOSE r \in results_list : TRUE).string

\* The keys and ids the consumers ask about.
AskedKeys == {Key(1, "a"), Key(1, "[1,2]"), Key(2, "b")}
AskedIds == 0..MaxGeneratedId
\* Ids asked about that no call has returned: the smallest value, the id after
\* the third generated one's encoding, and the largest generated id.
UnreturnedIds == {0, Pow2(CodecWidth - 2), MaxGeneratedId}

Resolve(p, key) ==
    /\ pc[p] \notin InCall
    /\ calls < MaxCalls
    /\ calls' = calls + 1
    /\ answer' = [op |-> "resolve", key |-> key, id |-> NoneId,
                  value |-> resolve(table, key), string |-> ""]
    /\ UNCHANGED <<table, quota, next_id, faults, given, pc, op, org_strings,
                   db_read_key_results, rate_limited_key_results, new_records, idx,
                   db_write_key_results, result, exc, failure, committed, inserted,
                   seen, limit_seen, empty_at_start, codec, consumer, ingest, persisted>>

ReverseResolve(p, id) ==
    /\ pc[p] \notin InCall
    /\ id \in {g[2] : g \in given} \cup UnreturnedIds
    /\ calls < MaxCalls
    /\ calls' = calls + 1
    /\ answer' = [op |-> "reverse_resolve", key |-> Key(0, ""), id |-> id,
                  value |-> NoneId, string |-> reverse_resolve(table, id)]
    /\ UNCHANGED <<table, quota, next_id, faults, given, pc, op, org_strings,
                   db_read_key_results, rate_limited_key_results, new_records, idx,
                   db_write_key_results, result, exc, failure, committed, inserted,
                   seen, limit_seen, empty_at_start, codec, consumer, ingest, persisted>>

\* ------------------------------------------------------------------ specification

Next ==
    \E p \in Procs :
        \/ \E r \in Requests : GetDbRecords(p, r[1], r[2])
        \/ CheckWriteLimits(p)
        \/ InsertBatchedOk(p)
        \/ InsertBatchedRaises(p)
        \/ InsertIndividualOk(p)
        \/ InsertIndividualRaises(p)
        \/ \E key \in AskedKeys : Resolve(p, key)
        \/ \E id \in AskedIds : ReverseResolve(p, id)

Spec == Init /\ [][Next]_vars

\* Concurrent consumers on a backend that raises only for real collisions.
RaceInit == MainInit /\ faults = MaxFaults /\ codec = CodecIdle

RaceSpec == RaceInit /\ [][Next]_vars

\* One consumer, no backend failure, ample quota, an empty table.
SeqInit == RaceInit /\ quota = MaxQuota

SeqNext ==
    \/ \E r \in Requests : GetDbRecords("p1", r[1], r[2])
    \/ CheckWriteLimits("p1")
    \/ InsertBatchedOk("p1")
    \/ \E key \in AskedKeys : Resolve("p1", key)
    \/ \E id \in AskedIds : ReverseResolve("p1", id)

SeqSpec == SeqInit /\ [][SeqNext]_vars

\* The calls of bulk_record among the requests.
BulkRequests == {r \in Requests : r[1] = "bulk_record"}

\* A call, once started, runs to its end: bulk_record is synchronous code and
\* its process keeps being scheduled.
CallStep(p) ==
    \/ CheckWriteLimits(p)
    \/ InsertBatchedOk(p)
    \/ InsertBatchedRaises(p)
    \/ InsertIndividualOk(p)
    \/ InsertIndividualRaises(p)

\* Concurrent calls of bulk_record with ample quota on a backend that raises
\* only for real collisions.
FairInit == RaceInit /\ quota = MaxQuota

FairNext ==
    \E p \in Procs :
        \/ \E r \in BulkRequests : GetDbRecords(p, r[1], r[2])
        \/ CallStep(p)

FairSpec == FairInit /\ [][FairNext]_vars /\ \A p \in Procs : WF_vars(CallStep(p))

\* Consumers whose failed batches are delivered again.
RetryInit == Init /\ quota = MaxQuota

RetryNext ==
    \E p \in Procs :
        \/ \E r \in BulkRequests : GetDbRecords(p, r[1], r[2])
        \/ CheckWriteLimits(p)
        \/ InsertBatchedOk(p)
        \/ InsertBatchedRaises(p)
        \/ InsertIndividualOk(p)
        \/ InsertIndividualRaises(p)
        \/ Redeliver(p)

RetrySpec == RetryInit /\ [][RetryNext]_vars

\* ------------------------------------------------------------------ codec alone

CodecRange == 0..(Pow2(CodecWidth) - 1)

CodecInit ==
    /\ MainInit
    /\ faults = 0
    /\ quota = MaxQuota
    /\ codec \in {[phase |-> "start", value |-> v, encoded |-> 0, decoded |-> 0] :
                     v \in CodecRange}

main_vars ==
    <<table, quota, next_id, faults, calls, given, pc, op, org_strings,
      db_read_key_results, rate_limited_key_results, new_records, idx,
      db_write_key_results, result, exc, failure, committed, inserted, seen,
      limit_seen, empty_at_start, answer, consumer, ingest, persisted>>

\* IdCodec.encode of a value of the unsigned range.
Encode ==
    /\ codec.phase = "start"
    /\ codec' = [codec EXCEPT !.phase = "encoded", !.encoded = encode(codec.value)]
    /\ UNCHANGED main_vars

\* IdCodec.decode of what encode returned.
Decode ==
    /\ codec.phase = "encoded"
    /\ codec' = [codec EXCEPT !.phase = "decoded", !.decoded = decode(codec.encoded)]
    /\ UNCHANGED main_vars

\* IdCodec.decode of a value of the signed range, as read from the table.
DecodeStored ==
    /\ codec.phase = "start"
    /\ codec' = [codec EXCEPT !.phase = "stored_decoded",
                              !.encoded = codec.value - Pow2(CodecWidth - 1),
                              !.decoded = decode(codec.value - Pow2(CodecWidth - 1))]
    /\ UNCHANGED main_vars

CodecNext == Encode \/ Decode \/ DecodeStored

CodecSpec == CodecInit /\ [][CodecNext]_vars


\* ------------------------------------------------------------------ batch consumer

\* The members of the enum IndexerStorage.
IndexerStorage == {"CLOUDSPANNER", "POSTGRES"}

UseCaseKey == {"release-health", "performance"}

\* The configurations get_ingest_config registers: every use case on both
\* storages.
IngestConfigs ==
    {[use_case_id |-> u, db_backend |-> b] : u \in UseCaseKey, b \in IndexerStorage}

\* The dict literal STORAGE_TO_INDEXER as written: <<member name, value>>.
STORAGE_TO_INDEXER ==
    {<<"CLOUDSPANNER", "function">>,
     <<"POSTGRES", "PostgresIndexer">>,
     <<"MOCK", "MockIndexer">>}

\* Importing the module evaluates the literal: naming a member the enum does
\* not have raises AttributeError.
ImportProcessing ==
    IF \A item \in STORAGE_TO_INDEXER : item[1] \in IndexerStorage
    THEN "none"
    ELSE "AttributeError"

\* The objects with a bulk_record attribute: the indexer instances, not the
\* function the CLOUDSPANNER entry holds.
HasBulkRecord(value) == value \in {"PostgresIndexer", "MockIndexer"}

\* IndexerBatch.extract_strings: the (organization_id, string) keys of the
\* batch's messages.
extract_strings(batch) == batch

\* process_messages on one inbound batch, from the import of its module on.
process_messages(config, outer_message) ==
    LET failed(e) ==
            [exc |-> e, bulk_record_calls |-> 0, org_strings |-> {},
             reconstructed |-> FALSE]
    IN  IF ImportProcessing # "none"
        THEN failed(ImportProcessing)
        ELSE LET org_strings_ == extract_strings(outer_message)
                 indexer == (CHOOSE item \in STORAGE_TO_INDEXER :
                                item[1] = config.db_backend)[2]
             IN  IF ~HasBulkRecord(indexer)
                 THEN failed("AttributeError")
                 ELSE [exc |-> "none", bulk_record_calls |-> 1,
                       org_strings |-> org_strings_, reconstructed |-> TRUE]

\* The batches the consumer receives.
InboundBatches ==
    SUBSET {Key(1, "a"), Key(1, "b"), Key(2, "a"), Key(2, "b"), Key(1, "c,d")}

ConsumerInit ==
    /\ IndexerInit
    /\ quota = MaxQuota
    /\ faults = 0
    /\ codec = CodecIdle
    /\ ingest = IngestIdle(MaxQuota)
    /\ consumer \in {[ConsumerIdle EXCEPT !.phase = "received",
                                          !.use_case_id = cfg.use_case_id,
                                          !.db_backend = cfg.db_backend,
                                          !.batch = b] :
                         cfg \in IngestConfigs, b \in InboundBatches}

\* The consumer runs process_messages on the batch it received.
ProcessMessages ==
    /\ consumer.phase = "received"
    /\ LET out == process_messages(
                      [use_case_id |-> consumer.use_case_id,
                       db_backend |-> consumer.db_backend], consumer.batch)
       IN  consumer' = [consumer EXCEPT !.phase = "done",
                                        !.exc = out.exc,
                                        !.bulk_record_calls = out.bulk_record_calls,
                                        !.org_strings = out.org_strings,
                                        !.reconstructed = out.reconstructed]
    /\ UNCHANGED <<table, quota, next_id, faults, calls, given, pc, op, org_strings,
                   db_read_key_results, rate_limited_key_results, new_records, idx,
                   db_write_key_results, result, exc, failure, committed, inserted,
                   seen, limit_seen, empty_at_start, answer, codec, ingest, persisted>>

ConsumerNext == ProcessMessages

ConsumerSpec == ConsumerInit /\ [][ConsumerNext]_vars

\* ------------------------------------------------------------------ configuration

\* MetricsIngestConfiguration: the fields the indexer and its limiter use.
MetricsIngestConfiguration(use_case_id, db_backend, namespace) ==
    [use_case_id |-> use_case_id, db_backend |-> db_backend,
     writes_limiter_namespace |-> namespace]

\* _register_ingest_config: the entry of (use_case_id, db_backend) is set.
_register_ingest_config(registry, config) ==
    LET key == <<config.use_case_id, config.db_backend>>
    IN  [k \in DOMAIN registry \cup {key} |-> IF k = key THEN config ELSE registry[k]]

\* The four registrations get_ingest_config makes on an empty registry.
RegisterAll(registry) ==
    _register_ingest_config(
        _register_ingest_config(
            _register_ingest_config(
                _register_ingest_config(
                    registry,
                    MetricsIngestConfiguration("release-health", "POSTGRES",
                                               RELEASE_HEALTH_PG_NAMESPACE)),
                MetricsIngestConfiguration("performance", "POSTGRES",
                                           PERFORMANCE_PG_NAMESPACE)),
            MetricsIngestConfiguration("release-health", "CLOUDSPANNER",
                                       RELEASE_HEALTH_CS_NAMESPACE)),
        MetricsIngestConfiguration("performance", "CLOUDSPANNER",
                                   PERFORMANCE_CS_NAMESPACE))

\* The db_backend arguments callers pass: the enum members, and the plain
\* strings of their values, which are no keys of the registry.
BackendArguments == IndexerStorage \cup {"cloudspanner", "postgres"}

\* get_ingest_config(use_case_key, db_backend).
GetIngestConfig(use_case_key, db_backend) ==
    /\ LET registry == IF DOMAIN ingest.registry = {}
                       THEN RegisterAll(ingest.registry)
                       ELSE ingest.registry
           key == <<use_case_key, db_backend>>
       IN  ingest' = [ingest EXCEPT
                         !.registry = registry,
                         !.asked = key,
                         !.returned = IF key \in DOMAIN registry
                                      THEN registry[key] ELSE NoConfig,
                         !.exc = IF key \in DOMAIN registry
                                 THEN "none" ELSE "KeyError"]
    /\ UNCHANGED <<table, quota, next_id, faults, calls, given, pc, op, org_strings,
                   db_read_key_results, rate_limited_key_results, new_records, idx,
                   db_write_key_results, result, exc, failure, committed, inserted,
                   seen, limit_seen, empty_at_start, answer, codec, consumer,
                   persisted>>

\* A write through the pipeline of the configuration last returned uses one
\* write of that configuration's limiter namespace.
UseNamespaceQuota ==
    /\ ingest.returned # NoConfig
    /\ ingest.quotas[ingest.returned.writes_limiter_namespace] > 0
    /\ ingest' = [ingest EXCEPT
                     !.quotas[ingest.returned.writes_limiter_namespace] =
                         use_quotas(@, 1, "none")]
    /\ UNCHANGED <<table, quota, next_id, faults, calls, given, pc, op, org_strings,
                   db_read_key_results, rate_limited_key_results, new_records, idx,
                   db_write_key_results, result, exc, failure, committed, inserted,
                   seen, limit_seen, empty_at_start, answer, codec, consumer,
                   persisted>>

ConfigInit ==
    /\ IndexerInit
    /\ quota = MaxQuota
    /\ faults = 0
    /\ codec = CodecIdle
    /\ consumer = ConsumerIdle
    /\ ingest \in {IngestIdle(q) : q \in StartQuotas}

ConfigNext ==
    \/ \E u \in UseCaseKey, b \in BackendArguments : GetIngestConfig(u, b)
    \/ UseNamespaceQuota

ConfigSpec == ConfigInit /\ [][ConfigNext]_vars

\* ------------------------------------------------------------------ properties

FirstSeenKeys(res) == {k \in DOMAIN res : res[k].fetch_type = FIRST_SEEN}
LimitedKeys(res) == {k \in DOMAIN res : res[k].fetch_type = RATE_LIMITED}
InsertedKeys(p) == {RowKey(r) : r \in inserted[p]}

\* C1: two calls that both missed the same key in their read and both returned
\* it as written report the same id for it, and the table holds exactly one row
\* for that key.
C1_SameIdOneRow ==
    \A p, q \in Procs : \A k \in Keys :
        (/\ p # q
         /\ pc[p] = "returned" /\ pc[q] = "returned"
         /\ k \in FirstSeenKeys(result[p]) \cap FirstSeenKeys(result[q]))
        => /\ result[p][k].id = result[q][k].id
           /\ Cardinality(ReadByIndex(table, {k})) = 1

\* C2: reverse_resolve of every id returned as FIRST_SEEN or DB_READ gives the
\* string of the key it was returned for.
C2_RoundTrip ==
    \A g \in given : reverse_resolve(table, g[2]) = g[1].str

\* C3: a call that returned holds one record for every requested key, and every
\* key it did not drop carries the decoded id of the row the table holds for it.
C3_EveryKeyResolved ==
    \A p \in Procs :
        (pc[p] = "returned" /\ op[p] = "bulk_record")
        => /\ DOMAIN result[p] = org_strings[p]
           /\ \A k \in DOMAIN result[p] \ LimitedKeys(result[p]) :
                  \E r \in ReadByIndex(table, {k}) : result[p][k].id = decode(r.id)

\* C4: a step in which an exception of the insert leaves the guarded block of
\* a call leaves the quota of the namespace as it was (the KeyError of record
\* is raised after the block was left).
C4_NoQuotaOnRaise ==
    [][\A p \in Procs :
           (pc[p] \in {"batch", "individual"} /\ pc'[p] = "raised"
            /\ exc'[p] # "KeyError")
           => (quota' = quota /\ committed'[p] = 0)]_vars

C4_Witness ==
    \E p \in Procs :
        /\ pc[p] = "raised"
        /\ exc[p] = "ServiceUnavailable"
        /\ inserted[p] # {}
        /\ limit_seen[p][2] > 0
        /\ quota = limit_seen[p][2]
        /\ committed[p] = 0

\* C5: when a call needs M writes and the namespace has N < M left, N keys are
\* accepted, M - N keys are returned as RATE_LIMITED, no row is inserted for a
\* dropped key, and with N = 0 the call returns at once.
C5_RateLimited ==
    \A p \in Procs :
        LET M == limit_seen[p][1]
            N == limit_seen[p][2]
        IN  M > N =>
            /\ pc[p] \in {"batch", "individual"} =>
                   /\ Len(new_records[p]) = N
                   /\ Cardinality(DOMAIN rate_limited_key_results[p]) = M - N
                   /\ InsertedKeys(p) \cap DOMAIN rate_limited_key_results[p] = {}
                   /\ InsertedKeys(p) \subseteq {RowKey(r) : r \in Range(new_records[p])}
            /\ pc[p] = "returned" =>
                   /\ Cardinality(LimitedKeys(result[p])) = M - N
                   /\ \A k \in LimitedKeys(result[p]) : result[p][k].id = NoneId
                   /\ InsertedKeys(p) \cap LimitedKeys(result[p]) = {}
                   /\ Cardinality(InsertedKeys(p)) <= N
                   /\ failure[p] = "none" =>
                          Cardinality(FirstSeenKeys(result[p])) = N
            /\ N = 0 => (pc[p] = "returned" /\ inserted[p] = {})

C5_Witness ==
    \E p \in Procs :
        /\ pc[p] = "returned"
        /\ limit_seen[p][1] > limit_seen[p][2]
        /\ limit_seen[p][2] > 0
        /\ Cardinality(inserted[p]) = limit_seen[p][2]
        /\ LimitedKeys(result[p]) # {}

\* C6: with one consumer, ample quota and no failure, bulk_record of
\* {1: {a, b}, 2: {a}} on an empty table creates three rows with distinct ids,
\* all FIRST_SEEN; the same call again returns the same ids, none FIRST_SEEN,
\* and inserts nothing.
C6_Scenario ==
    LET p == "p1"
        res == result[p]
    IN  (pc[p] = "returned" /\ org_strings[p] = Batch_ab_a) =>
        /\ empty_at_start[p] =>
               /\ DOMAIN res = Batch_ab_a
               /\ FirstSeenKeys(res) = Batch_ab_a
               /\ Cardinality(table) = 3
               /\ Cardinality({r.id : r \in table}) = 3
               /\ Cardinality({res[k].id : k \in Batch_ab_a}) = 3
               /\ table = inserted[p]
        /\ Batch_ab_a \subseteq {g[1] : g \in seen[p]} =>
               /\ DOMAIN res = Batch_ab_a
               /\ \A k \in Batch_ab_a :
                      <<k, res[k].id>> \in seen[p] /\ res[k].fetch_type = DB_READ
               /\ inserted[p] = {}
               /\ Cardinality(ReadByIndex(table, Batch_ab_a)) = 3

C6_Witness ==
    /\ pc["p1"] = "returned"
    /\ org_strings["p1"] = Batch_ab_a
    /\ Batch_ab_a \subseteq {g[1] : g \in seen["p1"]}
    /\ calls = 2

\* C7: decode(encode(x)) = x for every generated id x, and no other generated
\* id has the same encoding.
C7_CodecRoundTrip ==
    (codec.value <= MaxGeneratedId) =>
        /\ codec.phase = "decoded" => codec.decoded = codec.value
        /\ codec.phase \in {"encoded", "decoded"} =>
               \A y \in 0..MaxGeneratedId :
                   y # codec.value => encode(y) # codec.encoded

C7_Witness ==
    /\ codec.phase = "decoded"
    /\ codec.value = MaxGeneratedId
    /\ codec.decoded = MaxGeneratedId
    /\ codec.encoded # codec.value

TableUnique ==
    \A r1, r2 \in table :
        (RowKey(r1) = RowKey(r2) \/ r1.id = r2.id) => r1 = r2

\* C8: no two rows share (organization_id, string), no two rows share an id,
\* and a row once in the table stays in it unchanged.
C8_TableInvariant ==
    /\ []TableUnique
    /\ [][table \subseteq table']_vars

C8_Witness ==
    \E p, q \in Procs :
        /\ p # q
        /\ pc[p] = "returned" /\ pc[q] = "returned"
        /\ FirstSeenKeys(result[p]) \cap FirstSeenKeys(result[q]) # {}
        /\ Cardinality(table) = 3

\* C9: an id once returned for a key as FIRST_SEEN or DB_READ is the id every
\* later resolve and every later call returns for that key.
C9_StableIds ==
    \A g \in given :
        /\ resolve(table, g[1]) = g[2]
        /\ \A p \in Procs :
               (/\ pc[p] = "returned"
                /\ g \in seen[p]
                /\ g[1] \in DOMAIN result[p] \ LimitedKeys(result[p]))
               => result[p][g[1]].id = g[2]

\* C10: a call that met a backend failure which is no recognised uniqueness
\* conflict ends by raising that failure.
C10_FailurePropagates ==
    \A p \in Procs :
        failure[p] # "none" =>
            \/ pc[p] \in InCall
            \/ pc[p] = "raised" /\ exc[p] = failure[p]

\* C11: reverse_resolve of an id that no row of the table carries as its
\* (decoded) id answers None, and resolve of a key without a row answers None.
C11_NotFoundIsNone ==
    /\ (answer.op = "reverse_resolve"
        /\ \A r \in table : r.decoded_id # answer.id)
       => answer.string = NoString
    /\ (answer.op = "resolve" /\ ReadByIndex(table, {answer.key}) = {})
       => answer.value = NoneId

\* C12: for every configured storage, process_messages ends without an error
\* having called bulk_record once with the strings of the batch and handed the
\* result to reconstruct_messages.
C12_BulkRecordOncePerBatch ==
    consumer.phase = "done" =>
        /\ consumer.exc = "none"
        /\ consumer.bulk_record_calls = 1
        /\ consumer.org_strings = consumer.batch
        /\ consumer.reconstructed

\* C13: when an individual insert meets a uniqueness conflict whose detail does
\* not split into organization_id, string and id, the step does not raise and
\* records for the key the id read from the existing row.
C13_ParseFailureFallsBack ==
    [][\A p \in Procs :
           (/\ pc[p] = "individual"
            /\ (pc'[p] # "individual" \/ idx'[p] # idx[p]))
           => LET row == new_records[p][idx[p]]
                  k == RowKey(row)
                  recorded == IF pc'[p] = "individual"
                              THEN db_write_key_results'[p]
                              ELSE result'[p]
              IN  \A r \in ReadByIndex(table, {k}) :
                      Len(split(regex_search(UniqueViolationMessage(r)))) # 3
                      => /\ pc'[p] # "raised"
                         /\ k \in DOMAIN recorded
                         /\ recorded[k].id = decode(r.id)]_vars

\* C14: the quota a returned call used equals the number of rows that call
\* inserted.
C14_QuotaCoversPersistedRows ==
    \A p \in Procs :
        pc[p] = "returned" => committed[p] = Cardinality(inserted[p])

\* The keys of the rows a call is about to insert.
RecordKeys(records) == {RowKey(r) : r \in Range(records)}

\* C15: within a call the read comes first, then the limiter, then one batch
\* insert of the accepted keys; the individual inserts start only after the
\* batch failed with a uniqueness conflict, which inserted nothing, and insert
\* the rows generated for the batch, one per step; a batch that commits inserts
\* all its rows, reports them FIRST_SEEN with their generated ids and ends the
\* call.
C15_WriteProtocolOrder ==
    [][\A p \in Procs :
           /\ (pc'[p] = "limit" /\ pc[p] # "limit")
              => (pc[p] \notin InCall /\ table' = table)
           /\ (pc'[p] = "batch" /\ pc[p] # "batch")
              => /\ pc[p] = "limit"
                 /\ table' = table
                 /\ RecordKeys(new_records'[p])
                        = (org_strings[p] \ DOMAIN db_read_key_results[p])
                              \ DOMAIN rate_limited_key_results'[p]
                 /\ Len(new_records'[p]) = Cardinality(RecordKeys(new_records'[p]))
           /\ (pc'[p] = "individual" /\ pc[p] # "individual")
              => /\ pc[p] = "batch"
                 /\ failure'[p] = "none"
                 /\ table' = table
                 /\ new_records'[p] = new_records[p]
                 /\ idx'[p] = 1
           /\ (pc[p] = "batch" /\ pc'[p] # "batch" /\ table' # table)
              => /\ pc'[p] = "returned"
                 /\ table' = table \cup Range(new_records[p])
                 /\ \A r \in Range(new_records[p]) :
                        result'[p][RowKey(r)] = KeyResult(r.decoded_id, FIRST_SEEN)
           /\ (pc[p] = "individual" /\ pc'[p] = "individual")
              => /\ new_records'[p] = new_records[p]
                 /\ idx'[p] \in {idx[p], idx[p] + 1}
           /\ (pc[p] = "individual" /\ (pc'[p] # "individual" \/ idx'[p] # idx[p]))
              => /\ table' \subseteq table \cup {new_records[p][idx[p]]}
                 /\ table \subseteq table']_vars

C15_Witness ==
    \E p \in Procs :
        /\ pc[p] = "individual"
        /\ idx[p] = 2
        /\ inserted[p] = {new_records[p][1]}
        /\ inserted[p] \subseteq table

\* C16: a key a call reports as FIRST_SEEN without having inserted its row (the
\* id came from a conflict's detail or from the fallback read) carries the
\* decoded id of the row the table holds for that key.
C16_RecoveredIdIsRowId ==
    \A p \in Procs :
        LET writes == IF pc[p] = "individual"
                      THEN db_write_key_results[p]
                      ELSE result[p]
        IN  \A k \in FirstSeenKeys(writes) \ InsertedKeys(p) :
                /\ ReadByIndex(table, {k}) # {}
                /\ \A r \in ReadByIndex(table, {k}) : writes[k].id = decode(r.id)

\* A call that returned without reaching the limiter.
ReturnedFromRead(p) == pc[p] = "returned" /\ limit_seen[p] = <<0, 0>>

\* C17: a call reaches the limiter only when one of its keys has no row; a
\* call that does not reach it returns every key as DB_READ, having inserted
\* nothing and used no quota; and the step that reads changes neither the
\* table, nor the quota, nor the id generator.
C17_PureRead ==
    /\ [](\A p \in Procs :
             ReturnedFromRead(p) =>
                 /\ DOMAIN result[p] = org_strings[p]
                 /\ \A k \in DOMAIN result[p] : result[p][k].fetch_type = DB_READ
                 /\ inserted[p] = {}
                 /\ committed[p] = 0)
    /\ [][/\ \A p \in Procs :
                (pc'[p] = "limit" /\ pc[p] # "limit")
                => \E k \in org_strings'[p] : ReadByIndex(table, {k}) = {}
          /\ calls' # calls
             => (table' = table /\ quota' = quota /\ next_id' = next_id)]_vars

C17_Witness ==
    \E p \in Procs :
        /\ ReturnedFromRead(p)
        /\ Cardinality(org_strings[p]) = 3
        /\ \A k \in org_strings[p] : ReadByIndex(table, {k}) # {}
        /\ calls = 2

\* C18: every stored id is the encoding of the id generated for its row, and
\* every id a call or a resolve gave for a key that has a row is the decoding
\* of that row's stored id, which is the generated id.
C18_EncodingDiscipline ==
    /\ \A r \in table : r.id = encode(r.decoded_id)
    /\ \A g \in given : \A r \in ReadByIndex(table, {g[1]}) :
           g[2] = decode(r.id) /\ g[2] = r.decoded_id
    /\ answer.op = "resolve" =>
           \A r \in ReadByIndex(table, {answer.key}) :
               answer.value \in {NoneId, r.decoded_id}

FetchTypes(res) == {res[k].fetch_type : k \in DOMAIN res}

\* C19: during a call the keys read, the keys written and the keys dropped are
\* pairwise disjoint and carry DB_READ, FIRST_SEEN and RATE_LIMITED; the result
\* a call returns holds every record of the three unchanged, and whatever else
\* it holds is a FIRST_SEEN record of a key the call was writing.
C19_ProvenanceThroughMerge ==
    /\ [](\A p \in Procs :
             pc[p] \in InCall =>
                 LET reads == db_read_key_results[p]
                     writes == db_write_key_results[p]
                     limited == rate_limited_key_results[p]
                 IN  /\ DOMAIN reads \cap DOMAIN writes = {}
                     /\ DOMAIN reads \cap DOMAIN limited = {}
                     /\ DOMAIN writes \cap DOMAIN limited = {}
                     /\ RecordKeys(new_records[p])
                            \cap (DOMAIN reads \cup DOMAIN limited) = {}
                     /\ DOMAIN writes \subseteq RecordKeys(new_records[p])
                     /\ FetchTypes(reads) \subseteq {DB_READ}
                     /\ FetchTypes(writes) \subseteq {FIRST_SEEN}
                     /\ FetchTypes(limited) \subseteq {RATE_LIMITED})
    /\ [][\A p \in Procs :
              (pc[p] \in InCall /\ pc'[p] = "returned")
              => LET reads == db_read_key_results[p]
                     writes == db_write_key_results[p]
                     limited == rate_limited_key_results[p]
                     res == result'[p]
                     known == DOMAIN reads \cup DOMAIN writes \cup DOMAIN limited
                 IN  /\ known \subseteq DOMAIN res
                     /\ DOMAIN res \subseteq org_strings[p]
                     /\ \A k \in DOMAIN reads : res[k] = reads[k]
                     /\ \A k \in DOMAIN writes : res[k] = writes[k]
                     /\ \A k \in DOMAIN limited : res[k] = limited[k]
                     /\ \A k \in DOMAIN res \ known :
                            IF pc[p] = "limit"
                            THEN res[k].fetch_type = RATE_LIMITED
                            ELSE /\ res[k].fetch_type = FIRST_SEEN
                                 /\ k \in RecordKeys(new_records[p])]_vars

C19_Witness ==
    \E p \in Procs :
        /\ pc[p] = "returned"
        /\ FetchTypes(result[p]) = {DB_READ, FIRST_SEEN, RATE_LIMITED}
        /\ DOMAIN result[p] = org_strings[p]

SignedRange == (0 - Pow2(CodecWidth - 1))..(Pow2(CodecWidth - 1) - 1)

\* C20: encode of every value of the unsigned range lies in the signed range
\* of the field, and decode of every value of the signed range lies in the
\* unsigned range.
C20_FitsSignedField ==
    /\ codec.phase \in {"encoded", "decoded"} =>
           (codec.value \in CodecRange /\ codec.encoded \in SignedRange)
    /\ codec.phase = "stored_decoded" =>
           (codec.encoded \in SignedRange /\ codec.decoded \in CodecRange)

C20_Witness ==
    /\ codec.phase = "encoded"
    /\ codec.value = Pow2(CodecWidth) - 1
    /\ codec.encoded = Pow2(CodecWidth - 1) - 1

\* C21: once registered, the four (use case, backend) pairs have pairwise
\* different limiter namespaces; the configuration get_ingest_config returns
\* has the use case and the backend asked for; and a write through one
\* configuration changes the quota of no other configuration's namespace.
C21_NamespacePerBackend ==
    /\ [](/\ DOMAIN ingest.registry # {} =>
               /\ DOMAIN ingest.registry = UseCaseKey \X IndexerStorage
               /\ \A k1, k2 \in DOMAIN ingest.registry :
                      k1 # k2 => ingest.registry[k1].writes_limiter_namespace
                                     # ingest.registry[k2].writes_limiter_namespace
               /\ \A k \in DOMAIN ingest.registry :
                      /\ ingest.registry[k].use_case_id = k[1]
                      /\ ingest.registry[k].db_backend = k[2]
          /\ ingest.returned # NoConfig =>
               /\ ingest.returned.use_case_id = ingest.asked[1]
               /\ ingest.returned.db_backend = ingest.asked[2])
    /\ [][\A k \in DOMAIN ingest.registry :
              ingest.registry[k] # ingest.returned
              => ingest'.quotas[ingest.registry[k].writes_limiter_namespace]
                     = ingest.quotas[ingest.registry[k].writes_limiter_namespace]]_vars

C21_Witness ==
    /\ DOMAIN ingest.registry # {}
    /\ ingest.returned = ingest.registry[<<"release-health", "CLOUDSPANNER">>]
    /\ ingest.quotas[RELEASE_HEALTH_CS_NAMESPACE] = 0
    /\ ingest.quotas[RELEASE_HEALTH_PG_NAMESPACE] = MaxQuota

\* C22: a call that raises during its individual inserts leaves the rows it
\* inserted in the table and uses no quota (the KeyError of record is raised
\* after bulk_record returned); the redelivered call raises only
\* on a new failure of the backend or of a conflict's parse, and when it
\* returns it reports the rows the failed call inserted with the ids that call
\* generated, the table holding at most one row for each of its keys.
C22_RedeliveryAfterFailure ==
    /\ [](\A p \in Procs :
             /\ persisted[p] \subseteq table
             /\ (pc[p] = "returned" /\ persisted[p] # {}) =>
                    /\ \A r \in persisted[p] :
                           /\ RowKey(r) \in DOMAIN result[p]
                           /\ result[p][RowKey(r)] = KeyResult(r.decoded_id, DB_READ)
                    /\ \A k \in org_strings[p] :
                           Cardinality(ReadByIndex(table, {k})) <= 1)
    /\ [][\A p \in Procs :
              /\ (pc[p] = "individual" /\ pc'[p] = "raised"
                  /\ exc'[p] # "KeyError") =>
                     /\ table' = table
                     /\ inserted[p] \subseteq table'
                     /\ inserted'[p] = inserted[p]
                     /\ quota' = quota
                     /\ committed'[p] = 0
              /\ (persisted[p] # {} /\ pc[p] \in InCall /\ pc'[p] = "raised") =>
                     (faults' = faults + 1 \/ exc'[p] = "ValueError")]_vars

C22_Witness ==
    \E p \in Procs :
        /\ pc[p] = "returned"
        /\ persisted[p] # {}
        /\ FirstSeenKeys(result[p]) # {}
        /\ committed[p] = Cardinality(FirstSeenKeys(result[p]))

\* How far the call of p has got: the limiter, the batch insert, the
\* individual insert of row idx, the end.
Progress(at, i, records) ==
    CASE at = "limit" -> 0
      [] at = "batch" -> 1
      [] at = "individual" -> 1 + i
      [] OTHER -> 2 + Len(records)

\* What a step of the call of p changes.
CallState(p) ==
    <<pc[p], idx[p], db_write_key_results[p], inserted[p], failure[p], new_records[p]>>

\* C23: every call in progress eventually returns or raises; each of its steps
\* takes it further (limiter, one batch insert, then one individual insert per
\* row, never the same row twice), and it tries no more rows than the keys it
\* had to write.
C23_BoundedCompletion ==
    /\ \A p \in Procs : (pc[p] \in InCall) ~> (pc[p] \notin InCall)
    /\ [](\A p \in Procs :
             pc[p] \in {"batch", "individual"} =>
                 /\ idx[p] <= Len(new_records[p])
                 /\ Len(new_records[p]) <= limit_seen[p][1])
    /\ [][\A p \in Procs :
              (pc[p] \in InCall /\ CallState(p)' # CallState(p))
              => /\ Progress(pc'[p], idx'[p], new_records[p])
                        > Progress(pc[p], idx[p], new_records[p])
                 /\ pc'[p] = "individual" => idx'[p] = idx[p] + 1
                 /\ pc'[p] \in InCall => pc'[p] # "limit"]_vars

C23_Witness ==
    \E p \in Procs :
        /\ pc[p] = "returned"
        /\ limit_seen[p][1] = 3
        /\ Cardinality(FirstSeenKeys(result[p])) = 3
        /\ Cardinality(inserted[p]) = 2

====
